---- MODULE Spec2Model ----
(***************************************************************************)
(* Model of src/interrupt/manager.rs: DeviceInterruptManager, the per      *)
(* device interrupt mode state machine, and InterruptStatusRegister32.     *)
(*                                                                         *)
(* The manager is the record `mgr`; every method is an operator that takes *)
(* the manager (`self`) and returns the manager it leaves behind, the      *)
(* value it returns and the calls it made on interrupt source groups.      *)
(* An action applies one method to `mgr` and records the call in `last`.   *)
(***************************************************************************)
EXTENDS Integers, Sequences, FiniteSets, TLC

\* mgr: the DeviceInterruptManager.  last: the last call made on it.
\* enabled_slot: the slot of the group whose enable() the enable() call that
\* began the current runtime stage invoked; UsizeMax in configuration stage.
\* host_enabled: the slots of the groups that are enabled on the host, as
\* the actions of SpecHost follow it.
\* status: the word of an InterruptStatusRegister32, as the set of its bits
\* that are 1.  reg_last: the last call made on the register.  undrained:
\* the bits written as 1 and since neither returned by read_and_clear nor
\* written as 0.
VARIABLES mgr, last, enabled_slot, host_enabled, status, reg_last, undrained

mgrvars == <<mgr, last, enabled_slot, host_enabled>>

regvars == <<status, reg_last, undrained>>

vars == <<mgr, last, enabled_slot, host_enabled, status, reg_last, undrained>>

(* ------------------------------ bounds -------------------------------- *)

\* The vector counts of the MSI resources assigned to a device: the PCI MSI
\* range has MaxVec vectors, the generic MSI and PCI MSI-X ranges MinVec.
MinVec == 1
MaxVec == 2
\* The threads that share one InterruptStatusRegister32.
NThreads == 2

(* ----------------------- DeviceInterruptMode -------------------------- *)

Disabled == 0
LegacyIrq == 1
GenericMsiIrq == 2
PciMsiIrq == 3
PciMsixIrq == 4

Modes == {Disabled, LegacyIrq, GenericMsiIrq, PciMsiIrq, PciMsixIrq}

MsiModes == {GenericMsiIrq, PciMsiIrq, PciMsixIrq}

\* usize::MAX, the "no group" marker of mode2idx and current_idx.  Only its
\* being larger than every table length matters; it is written as the
\* largest integer the model checker represents.
UsizeMax == 2147483647

(* ----------------------- InterruptSourceConfig ------------------------ *)

\* InterruptSourceConfig::MsiIrq(MsiIrqSourceConfig::default())
MsiDefault == [tag |-> "MsiIrq", high_addr |-> 0, low_addr |-> 0, data |-> 0]

\* LEGACY_CONFIGS
LEGACY_CONFIGS == <<[tag |-> "LegacyIrq"]>>

\* vec![elem; n]
Repeat(elem, n) == [i \in 1..n |-> elem]

(* --------------------------- return values ---------------------------- *)

Ok == "Ok"
EINVAL == "EINVAL"
\* An error returned by an interrupt source group, propagated by `?`.
GroupErr == "GroupErr"
\* The call did not return: an index out of range or panic!() unwound it.
Panic == "Panic"

(* ------------------------- DeviceResources ---------------------------- *)

\* The interrupt resources assigned to a device: a legacy irq or none, and
\* for each MSI type the number of vectors of its range, 0 for no range.
\* Every subset of the four mechanisms is a device; the range sizes make the
\* MSI configuration space grow (generic, then PCI MSI), stay (generic, then
\* PCI MSI-X) and exceed a later group (PCI MSI, then PCI MSI-X).
Resources ==
  [legacy : BOOLEAN, generic : {0, MinVec}, pci_msi : {0, MaxVec},
   pci_msix : {0, MinVec}]

(* ----------------------- InterruptSourceGroup ------------------------- *)

\* The group create_group(ty, base, count) returns: `res` stands for the
\* resource (base) it was created from, `len` is what len() returns.
Group(ty, res, count) == [ty |-> ty, res |-> res, len |-> count]

\* What get_group() returns for None.
NoGroup == [ty |-> "None", res |-> Disabled, len |-> 0]

\* A call made on the group in slot `slot` (0-based index of intr_groups):
\* the method, for update the index, the configuration entries passed, and
\* whether the group returned Ok.
GroupCall(slot, op, index, payload, ok) ==
  [slot |-> slot, op |-> op, index |-> index, payload |-> payload, ok |-> ok]

(* ---------------------- DeviceInterruptManager ------------------------ *)

\* self.intr_groups[idx], idx a 0-based index.
ValidIdx(self, idx) == idx >= 0 /\ idx < Len(self.intr_groups)

GroupAt(self, idx) == self.intr_groups[idx + 1]

\* resize_msi_config_space without the comparison: the space is sized to the
\* last MSI group created.
resize_msi_config_space_Always(self, size) ==
  [self EXCEPT !.msi_config = Repeat(MsiDefault, size)]

\* resize_msi_config_space(size)
resize_msi_config_space(self, size) ==
  IF Len(self.msi_config) < size
    THEN [self EXCEPT !.msi_config = Repeat(MsiDefault, size)]
    ELSE self

\* The body shared by the four `if let Some(..)` blocks of new(): create the
\* group, grow the MSI configuration space for an MSI group, record the slot
\* in mode2idx and push the group.
AddGroup(self, mode, ty, count) ==
  LET group == Group(ty, mode, count)
      s1 == IF ty = "MsiIrq" THEN resize_msi_config_space(self, group.len) ELSE self
  IN [s1 EXCEPT !.mode2idx[mode] = Len(s1.intr_groups),
                !.intr_groups = Append(s1.intr_groups, group)]

\* DeviceInterruptManager::new(intr_mgr, resources), every create_group
\* succeeding.
New(resources) ==
  LET m0 == [mode |-> Disabled,
             activated |-> FALSE,
             current_idx |-> UsizeMax,
             mode2idx |-> [m \in Modes |-> UsizeMax],
             intr_groups |-> <<>>,
             msi_config |-> <<>>]
      m1 == IF resources.legacy
              THEN AddGroup(m0, LegacyIrq, "LegacyIrq", 1) ELSE m0
      m2 == IF resources.generic > 0
              THEN AddGroup(m1, GenericMsiIrq, "MsiIrq", resources.generic) ELSE m1
      m3 == IF resources.pci_msi > 0
              THEN AddGroup(m2, PciMsiIrq, "MsiIrq", resources.pci_msi) ELSE m2
      m4 == IF resources.pci_msix > 0
              THEN AddGroup(m3, PciMsixIrq, "MsiIrq", resources.pci_msix) ELSE m3
  IN m4

\* is_enabled()
is_enabled(self) == self.activated

\* get_working_mode()
get_working_mode(self) == self.mode

\* reset_configs() with the reset in the default arm too: entering
\* LegacyIrq clears the MSI configuration space.
reset_configs_EveryMode(self, mode) ==
  [self EXCEPT !.msi_config = Repeat(MsiDefault, Len(self.msi_config))]

\* reset_configs(mode)
reset_configs(self, mode) ==
  IF mode \in MsiModes
    THEN [self EXCEPT !.msi_config = Repeat(MsiDefault, Len(self.msi_config))]
    ELSE self

\* UnsupportedTransition without the test that the current mode is not
\* LegacyIrq: a switch from legacy to an MSI mode is rejected.
UnsupportedTransition_LegacySource(cur, target) ==
  /\ cur # Disabled
  /\ target # LegacyIrq
  /\ target # Disabled

\* The condition under which set_working_mode rejects a switch from `cur`
\* to a different mode `target`.
UnsupportedTransition(cur, target) ==
  /\ cur # Disabled
  /\ cur # LegacyIrq
  /\ target # LegacyIrq
  /\ target # Disabled

\* ModeLocked placed after the same-mode shortcut: a call naming the current
\* mode is not rejected at runtime stage.
ModeLocked_SameModeOk(self, mode) == self.activated /\ mode # self.mode

\* ModeLocked with the check left out.
ModeLocked_Never(self, mode) == FALSE

\* ModeLocked letting a switch to Disabled through at runtime stage.
ModeLocked_ExceptDisabled(self, mode) == self.activated /\ mode # Disabled

\* "Can't switch mode again once enabled": the first check of
\* set_working_mode.
ModeLocked(self, mode) == self.activated

\* TargetIdx read before the mode is assigned: the slot of the mode left.
TargetIdx_OfCurrentMode(self, mode) == self.mode2idx[self.mode]

\* The slot set_working_mode makes current when it enters `mode`.
TargetIdx(self, mode) == self.mode2idx[mode]

\* set_working_mode(mode)
set_working_mode(self, mode) ==
  IF ModeLocked(self, mode)
    THEN [self |-> self, ret |-> EINVAL]
    ELSE IF mode # self.mode
      THEN IF UnsupportedTransition(self.mode, mode)
        THEN [self |-> self, ret |-> EINVAL]
        ELSE LET s1 == IF mode # Disabled
                         THEN [reset_configs(self, mode)
                                 EXCEPT !.current_idx = TargetIdx(self, mode)]
                         ELSE self
             IN [self |-> [s1 EXCEPT !.mode = mode], ret |-> Ok]
      ELSE [self |-> self, ret |-> Ok]

\* get_configs() handing out the whole MSI configuration space instead of
\* its first group_len entries.
get_configs_Whole(self, mode) ==
  IF mode = LegacyIrq
    THEN [panic |-> FALSE, configs |-> LEGACY_CONFIGS]
    ELSE IF mode \in MsiModes
      THEN IF ~ValidIdx(self, self.mode2idx[mode])
        THEN [panic |-> TRUE, configs |-> <<>>]
        ELSE [panic |-> FALSE, configs |-> self.msi_config]
      ELSE [panic |-> TRUE, configs |-> <<>>]

\* get_configs(mode): the slice handed to the group's enable, or a panic
\* (an index or a slice range out of bounds, or the panic!() arm).
get_configs(self, mode) ==
  IF mode = LegacyIrq
    THEN [panic |-> FALSE, configs |-> LEGACY_CONFIGS]
    ELSE IF mode \in MsiModes
      THEN LET idx == self.mode2idx[mode]
           IN IF ~ValidIdx(self, idx)
                THEN [panic |-> TRUE, configs |-> <<>>]
                ELSE LET group_len == GroupAt(self, idx).len
                     IN IF group_len > Len(self.msi_config)
                          THEN [panic |-> TRUE, configs |-> <<>>]
                          ELSE [panic |-> FALSE,
                                configs |-> SubSeq(self.msi_config, 1, group_len)]
      ELSE [panic |-> TRUE, configs |-> <<>>]

\* EnterLegacyByDefault looking up the slot of the current (Disabled) mode,
\* which no group ever has.
EnterLegacyByDefault_WrongSlot(self) ==
  self.mode = Disabled /\ self.mode2idx[self.mode] # UsizeMax

\* The default of enable(): a manager still in Disabled mode enters
\* LegacyIrq mode when a legacy group exists.
EnterLegacyByDefault(self) ==
  self.mode = Disabled /\ self.mode2idx[LegacyIrq] # UsizeMax

\* NoModeSelected testing the current slot instead of the mode.
NoModeSelected_ByIdx(self) == self.current_idx = UsizeMax

\* The check of enable() that no mode is selected, made after the default.
NoModeSelected(self) == self.mode = Disabled

\* enable() that returns to the mode it was called in when the group's
\* enable() fails.
enable_RollBack(self, grp_ok) ==
  IF self.activated
    THEN [self |-> self, ret |-> Ok, calls |-> <<>>]
    ELSE LET r1 == IF EnterLegacyByDefault(self)
                     THEN set_working_mode(self, LegacyIrq)
                     ELSE [self |-> self, ret |-> Ok]
             s1 == r1.self
         IN IF r1.ret # Ok
              THEN [self |-> s1, ret |-> r1.ret, calls |-> <<>>]
              ELSE IF NoModeSelected(s1)
                THEN [self |-> s1, ret |-> EINVAL, calls |-> <<>>]
                ELSE IF ~ValidIdx(s1, s1.current_idx) \/ get_configs(s1, s1.mode).panic
                  THEN [self |-> s1, ret |-> Panic, calls |-> <<>>]
                  ELSE [self |-> IF grp_ok THEN [s1 EXCEPT !.activated = TRUE] ELSE self,
                        ret |-> IF grp_ok THEN Ok ELSE GroupErr,
                        calls |-> <<GroupCall(s1.current_idx, "enable", 0,
                                              get_configs(s1, s1.mode).configs, grp_ok)>>]

\* enable() without the early return of the runtime stage: it calls the
\* group's enable() again.
enable_Again(self, grp_ok) ==
  LET r1 == IF EnterLegacyByDefault(self)
              THEN set_working_mode(self, LegacyIrq)
              ELSE [self |-> self, ret |-> Ok]
      s1 == r1.self
  IN IF r1.ret # Ok
       THEN [self |-> s1, ret |-> r1.ret, calls |-> <<>>]
       ELSE IF NoModeSelected(s1)
         THEN [self |-> s1, ret |-> EINVAL, calls |-> <<>>]
         ELSE IF ~ValidIdx(s1, s1.current_idx) \/ get_configs(s1, s1.mode).panic
           THEN [self |-> s1, ret |-> Panic, calls |-> <<>>]
           ELSE [self |-> IF grp_ok THEN [s1 EXCEPT !.activated = TRUE] ELSE s1,
                 ret |-> IF grp_ok THEN Ok ELSE GroupErr,
                 calls |-> <<GroupCall(s1.current_idx, "enable", 0,
                                       get_configs(s1, s1.mode).configs, grp_ok)>>]

\* enable() assigning activated before the group's enable() is called, the
\* order reset() uses.
enable_ActivateFirst(self, grp_ok) ==
  IF self.activated
    THEN [self |-> self, ret |-> Ok, calls |-> <<>>]
    ELSE LET r1 == IF EnterLegacyByDefault(self)
                     THEN set_working_mode(self, LegacyIrq)
                     ELSE [self |-> self, ret |-> Ok]
             s1 == r1.self
         IN IF r1.ret # Ok
              THEN [self |-> s1, ret |-> r1.ret, calls |-> <<>>]
              ELSE IF NoModeSelected(s1)
                THEN [self |-> s1, ret |-> EINVAL, calls |-> <<>>]
                ELSE IF ~ValidIdx(s1, s1.current_idx) \/ get_configs(s1, s1.mode).panic
                  THEN [self |-> s1, ret |-> Panic, calls |-> <<>>]
                  ELSE [self |-> [s1 EXCEPT !.activated = TRUE],
                        ret |-> IF grp_ok THEN Ok ELSE GroupErr,
                        calls |-> <<GroupCall(s1.current_idx, "enable", 0,
                                              get_configs(s1, s1.mode).configs, grp_ok)>>]

\* enable(); grp_ok is whether the group's enable() returns Ok.
enable(self, grp_ok) ==
  IF self.activated
    THEN [self |-> self, ret |-> Ok, calls |-> <<>>]
    ELSE LET r1 == IF EnterLegacyByDefault(self)
                     THEN set_working_mode(self, LegacyIrq)
                     ELSE [self |-> self, ret |-> Ok]
             s1 == r1.self
         IN IF r1.ret # Ok
              THEN [self |-> s1, ret |-> r1.ret, calls |-> <<>>]
              ELSE IF NoModeSelected(s1)
                THEN [self |-> s1, ret |-> EINVAL, calls |-> <<>>]
                ELSE IF ~ValidIdx(s1, s1.current_idx)
                  THEN [self |-> s1, ret |-> Panic, calls |-> <<>>]
                  ELSE LET cfg == get_configs(s1, s1.mode)
                           call == GroupCall(s1.current_idx, "enable", 0, cfg.configs, grp_ok)
                       IN IF cfg.panic
                            THEN [self |-> s1, ret |-> Panic, calls |-> <<>>]
                            ELSE IF grp_ok
                              THEN [self |-> [s1 EXCEPT !.activated = TRUE],
                                    ret |-> Ok, calls |-> <<call>>]
                              ELSE [self |-> s1, ret |-> GroupErr, calls |-> <<call>>]

\* reset() that deactivates the group and forgets to leave the mode.
reset_KeepMode(self, grp_ok) ==
  LET deact == self.activated
      s1 == IF deact THEN [self EXCEPT !.activated = FALSE] ELSE self
      call == GroupCall(s1.current_idx, "disable", 0, <<>>, grp_ok)
  IN IF deact /\ ~ValidIdx(s1, s1.current_idx)
       THEN [self |-> s1, ret |-> Panic, calls |-> <<>>]
       ELSE IF deact /\ ~grp_ok
         THEN [self |-> s1, ret |-> GroupErr, calls |-> <<call>>]
         ELSE [self |-> s1, ret |-> Ok, calls |-> IF deact THEN <<call>> ELSE <<>>]

\* reset(); grp_ok is whether the group's disable() returns Ok.
reset(self, grp_ok) ==
  LET deact == self.activated
      s1 == IF deact THEN [self EXCEPT !.activated = FALSE] ELSE self
      call == GroupCall(s1.current_idx, "disable", 0, <<>>, grp_ok)
  IN IF deact /\ ~ValidIdx(s1, s1.current_idx)
       THEN [self |-> s1, ret |-> Panic, calls |-> <<>>]
       ELSE IF deact /\ ~grp_ok
         THEN [self |-> s1, ret |-> GroupErr, calls |-> <<call>>]
         ELSE LET r2 == set_working_mode(s1, Disabled)
              IN [self |-> r2.self, ret |-> r2.ret,
                  calls |-> IF deact THEN <<call>> ELSE <<>>]

\* get_group() with && for ||: None only when both not activated and
\* Disabled.
get_group_AndForOr(self) ==
  IF ~self.activated /\ self.mode = Disabled
    THEN [panic |-> FALSE, group |-> NoGroup]
    ELSE IF ~ValidIdx(self, self.current_idx)
      THEN [panic |-> TRUE, group |-> NoGroup]
      ELSE [panic |-> FALSE, group |-> GroupAt(self, self.current_idx)]

\* get_group(): NoGroup for None, the group for Some.
get_group(self) ==
  IF ~self.activated \/ self.mode = Disabled
    THEN [panic |-> FALSE, group |-> NoGroup]
    ELSE IF ~ValidIdx(self, self.current_idx)
      THEN [panic |-> TRUE, group |-> NoGroup]
      ELSE [panic |-> FALSE, group |-> GroupAt(self, self.current_idx)]

\* IndexOutOfRange without the test against the group's vector count.
IndexOutOfRange_ConfigOnly(self, group, index) == index >= Len(self.msi_config)

\* The index check of update(): beyond the group's vectors or beyond the MSI
\* configuration space.
IndexOutOfRange(self, group, index) ==
  index >= group.len \/ index >= Len(self.msi_config)

\* UpdateConfig always passing the first entry.
UpdateConfig_First(self, index) == self.msi_config[1]

\* The configuration entry update() passes to the group's update().
UpdateConfig(self, index) == self.msi_config[index + 1]

\* update(index); grp_ok is whether the group's update() returns Ok.
update(self, index, grp_ok) ==
  IF ~self.activated
    THEN [self |-> self, ret |-> EINVAL, calls |-> <<>>]
    ELSE IF self.mode \in MsiModes
      THEN IF ~ValidIdx(self, self.current_idx)
        THEN [self |-> self, ret |-> Panic, calls |-> <<>>]
        ELSE LET group == GroupAt(self, self.current_idx)
             IN IF IndexOutOfRange(self, group, index)
                  THEN [self |-> self, ret |-> EINVAL, calls |-> <<>>]
                  ELSE [self |-> self,
                        ret |-> IF grp_ok THEN Ok ELSE GroupErr,
                        calls |-> <<GroupCall(self.current_idx, "update", index,
                                              <<UpdateConfig(self, index)>>,
                                              grp_ok)>>]
      ELSE [self |-> self, ret |-> EINVAL, calls |-> <<>>]

\* The three setters differ only in the field they write.
set_msi_field(self, field, index, data) ==
  IF index < Len(self.msi_config) /\ self.msi_config[index + 1].tag = "MsiIrq"
    THEN [self |-> [self EXCEPT !.msi_config[index + 1][field] = data], ret |-> Ok]
    ELSE [self |-> self, ret |-> EINVAL]

\* set_msi_high_address(index, data)
set_msi_high_address(self, index, data) == set_msi_field(self, "high_addr", index, data)

\* set_msi_low_address writing the high address: the body copied from
\* set_msi_high_address and not adapted.
set_msi_low_address_HighAddr(self, index, data) ==
  set_msi_field(self, "high_addr", index, data)

\* set_msi_low_address(index, data)
set_msi_low_address(self, index, data) == set_msi_field(self, "low_addr", index, data)

\* set_msi_data(index, data)
set_msi_data(self, index, data) == set_msi_field(self, "data", index, data)

(* -------------------- InterruptStatusRegister32 ----------------------- *)

\* The width of the AtomicU32, and the positions of its bits.
RegWidth == 32

RegBits == 0..(RegWidth - 1)

\* The word of a u32 literal below 2^31: the positions of its 1 bits.
Bits(n) == {i \in RegBits : i < RegWidth - 1 /\ (n \div (2 ^ i)) % 2 = 1}

\* InterruptStatusRegister32::new()
NewStatus == Bits(0)

\* read(): status.load(SeqCst)
read(word) == word

\* write(value): status.store(value, SeqCst)
write(word, value) == value

\* read_and_clear() as a load with nothing stored.
read_and_clear_Load(word) == [status |-> word, ret |-> word]

\* read_and_clear(): status.swap(0, SeqCst), one atomic exchange
read_and_clear(word) == [status |-> Bits(0), ret |-> word]

\* set_bits(value): status.fetch_or(value, SeqCst)
set_bits(word, value) == word \cup value

\* clear_bits() without the complement: fetch_and(value).
clear_bits_NoComplement(word, value) == word \cap value

\* clear_bits(value): status.fetch_and(!value, SeqCst)
clear_bits(word, value) == word \cap (RegBits \ value)

(* ------------------------------ actions ------------------------------- *)

\* The record of the last call on the manager: the method, its arguments,
\* the mode, stage and current_idx of the manager before the call, the value
\* returned, for get_group the handle returned, and the calls made on
\* groups.
Call(op, mode, index, data, ret, handle, calls) ==
  [op |-> op, mode |-> mode, index |-> index, data |-> data, pre |-> [mode |-> mgr.mode, activated |-> mgr.activated,
           current_idx |-> mgr.current_idx],
   ret |-> ret, handle |-> handle, calls |-> calls]

\* The indices a caller passes: every vector of the largest group, and one
\* index beyond the MSI configuration space.
Indices == 0..MaxVec

\* The u32 values a caller writes: one that differs from the default, which
\* tells a written field from an untouched one.
DataVals == {1}

\* The values a field of an MSI configuration entry takes: the default or a
\* written one.
FieldVals == {MsiDefault.data} \cup DataVals

\* A panic unwinds the caller: no further call is made on the manager.
Running == last.ret # Panic

Init ==
  /\ \E resources \in Resources : mgr = New(resources)
  /\ last = [op |-> "new", mode |-> Disabled, index |-> 0, data |-> 0,
             pre |-> [mode |-> Disabled, activated |-> FALSE, current_idx |-> UsizeMax],
             ret |-> Ok, handle |-> NoGroup, calls |-> <<>>]
  /\ enabled_slot = UsizeMax
  /\ host_enabled = {}
  /\ status = NewStatus
  /\ reg_last = [thread |-> 0, op |-> "new", arg |-> Bits(0), pre |-> Bits(0),
                 pending |-> {}, ret |-> Bits(0)]
  /\ undrained = {}

SetWorkingMode ==
  /\ Running
  /\ \E mode \in Modes :
       LET r == set_working_mode(mgr, mode)
       IN /\ mgr' = r.self
          /\ last' = Call("set_working_mode", mode, 0, 0, r.ret, NoGroup, <<>>)
  /\ UNCHANGED <<enabled_slot, host_enabled, status, reg_last, undrained>>

Enable ==
  /\ Running
  /\ \E grp_ok \in BOOLEAN :
       LET r == enable(mgr, grp_ok)
       IN /\ mgr' = r.self
          /\ last' = Call("enable", Disabled, 0, 0, r.ret, NoGroup, r.calls)
          /\ enabled_slot' = IF r.ret = Ok /\ r.calls # <<>>
                               THEN r.calls[1].slot ELSE enabled_slot
  /\ UNCHANGED <<host_enabled, status, reg_last, undrained>>

Reset ==
  /\ Running
  /\ \E grp_ok \in BOOLEAN :
       LET r == reset(mgr, grp_ok)
       IN /\ mgr' = r.self
          /\ last' = Call("reset", Disabled, 0, 0, r.ret, NoGroup, r.calls)
          /\ enabled_slot' = IF r.self.activated THEN enabled_slot ELSE UsizeMax
  /\ UNCHANGED <<host_enabled, status, reg_last, undrained>>

GetGroup ==
  /\ Running
  /\ LET r == get_group(mgr)
     IN last' = Call("get_group", Disabled, 0, 0,
                     IF r.panic THEN Panic ELSE Ok, r.group, <<>>)
  /\ UNCHANGED <<mgr, enabled_slot, host_enabled, status, reg_last, undrained>>

Update ==
  /\ Running
  /\ \E index \in Indices, grp_ok \in BOOLEAN :
       LET r == update(mgr, index, grp_ok)
       IN /\ mgr' = r.self
          /\ last' = Call("update", Disabled, index, 0, r.ret, NoGroup, r.calls)
  /\ UNCHANGED <<enabled_slot, host_enabled, status, reg_last, undrained>>

SetMsiHighAddress ==
  /\ Running
  /\ \E index \in Indices, data \in DataVals :
       LET r == set_msi_high_address(mgr, index, data)
       IN /\ mgr' = r.self
          /\ last' = Call("set_msi_high_address", Disabled, index, data, r.ret, NoGroup, <<>>)
  /\ UNCHANGED <<enabled_slot, host_enabled, status, reg_last, undrained>>

SetMsiLowAddress ==
  /\ Running
  /\ \E index \in Indices, data \in DataVals :
       LET r == set_msi_low_address(mgr, index, data)
       IN /\ mgr' = r.self
          /\ last' = Call("set_msi_low_address", Disabled, index, data, r.ret, NoGroup, <<>>)
  /\ UNCHANGED <<enabled_slot, host_enabled, status, reg_last, undrained>>

SetMsiData ==
  /\ Running
  /\ \E index \in Indices, data \in DataVals :
       LET r == set_msi_data(mgr, index, data)
       IN /\ mgr' = r.self
          /\ last' = Call("set_msi_data", Disabled, index, data, r.ret, NoGroup, <<>>)
  /\ UNCHANGED <<enabled_slot, host_enabled, status, reg_last, undrained>>

Next ==
  \/ SetWorkingMode
  \/ Enable
  \/ Reset
  \/ GetGroup
  \/ Update
  \/ SetMsiHighAddress
  \/ SetMsiLowAddress
  \/ SetMsiData

Spec == Init /\ [][Next]_vars

(* ----------------- actions of InterruptStatusRegister32 --------------- *)

Threads == 1..NThreads

\* The values callers pass: 0, the values 0x13, 0x11, 0x100 and 0x2 of the
\* unit test, and the top bit.
RegVals == {Bits(0), Bits(19), Bits(17), Bits(256), Bits(2), {RegWidth - 1}}

\* The record of the last call on the register: the calling thread, the
\* method, its argument, the word and the undrained bits before the call,
\* and the value returned (0 for the methods that return nothing).
RegCall(t, op, arg, ret) ==
  [thread |-> t, op |-> op, arg |-> arg, pre |-> status, pending |-> undrained,
   ret |-> ret]

Read(t) ==
  /\ reg_last' = RegCall(t, "read", Bits(0), read(status))
  /\ UNCHANGED <<status, undrained, mgr, last, enabled_slot, host_enabled>>

Write(t) ==
  /\ \E value \in RegVals :
       /\ status' = write(status, value)
       /\ reg_last' = RegCall(t, "write", value, Bits(0))
       /\ undrained' = value
  /\ UNCHANGED <<mgr, last, enabled_slot, host_enabled>>

ReadAndClear(t) ==
  /\ LET r == read_and_clear(status)
     IN /\ status' = r.status
        /\ reg_last' = RegCall(t, "read_and_clear", Bits(0), r.ret)
        /\ undrained' = undrained \ r.ret
  /\ UNCHANGED <<mgr, last, enabled_slot, host_enabled>>

SetBits(t) ==
  /\ \E value \in RegVals :
       /\ status' = set_bits(status, value)
       /\ reg_last' = RegCall(t, "set_bits", value, Bits(0))
       /\ undrained' = undrained \cup value
  /\ UNCHANGED <<mgr, last, enabled_slot, host_enabled>>

ClearBits(t) ==
  /\ \E value \in RegVals :
       /\ status' = clear_bits(status, value)
       /\ reg_last' = RegCall(t, "clear_bits", value, Bits(0))
       /\ undrained' = undrained \ value
  /\ UNCHANGED <<mgr, last, enabled_slot, host_enabled>>

\* A register on its own: the manager is the one of a device without
\* interrupt resources and is not called.
InitReg ==
  /\ Init
  /\ mgr.intr_groups = <<>>

NextReg ==
  \E t \in Threads :
    \/ Read(t)
    \/ Write(t)
    \/ ReadAndClear(t)
    \/ SetBits(t)
    \/ ClearBits(t)

\* Threads calling every method of one register.
SpecReg == InitReg /\ [][NextReg]_vars

NextDrain ==
  \E t \in Threads :
    \/ SetBits(t)
    \/ ReadAndClear(t)

\* Threads that only set bits and drain one register.
SpecDrain == InitReg /\ [][NextDrain]_vars

\* The groups enabled on the host after a call on the manager, which makes
\* at most one call on a group: a group's enable that returns Ok enables
\* it, a disable that returns Ok disables it, and a failing call or an
\* update changes nothing.
HostAfter(host, calls) ==
  IF calls = <<>> \/ ~calls[1].ok
    THEN host
    ELSE IF calls[1].op = "enable"
      THEN host \cup {calls[1].slot}
      ELSE IF calls[1].op = "disable"
        THEN host \ {calls[1].slot}
        ELSE host

\* enable(), with the groups enabled on the host followed.
HostEnable ==
  /\ Running
  /\ \E grp_ok \in BOOLEAN :
       LET r == enable(mgr, grp_ok)
       IN /\ mgr' = r.self
          /\ last' = Call("enable", Disabled, 0, 0, r.ret, NoGroup, r.calls)
          /\ enabled_slot' = IF r.ret = Ok /\ r.calls # <<>>
                               THEN r.calls[1].slot ELSE enabled_slot
          /\ host_enabled' = HostAfter(host_enabled, r.calls)
  /\ UNCHANGED <<status, reg_last, undrained>>

\* reset(), with the groups enabled on the host followed.
HostReset ==
  /\ Running
  /\ \E grp_ok \in BOOLEAN :
       LET r == reset(mgr, grp_ok)
       IN /\ mgr' = r.self
          /\ last' = Call("reset", Disabled, 0, 0, r.ret, NoGroup, r.calls)
          /\ enabled_slot' = IF r.self.activated THEN enabled_slot ELSE UsizeMax
          /\ host_enabled' = HostAfter(host_enabled, r.calls)
  /\ UNCHANGED <<status, reg_last, undrained>>

NextHost ==
  \/ SetWorkingMode
  \/ HostEnable
  \/ HostReset

\* The sequences of set_working_mode, enable and reset, with the groups
\* enabled on the host followed.
SpecHost == Init /\ [][NextHost]_vars

(* ------------------------------ claims ------------------------------- *)

\* Whether the device was assigned a legacy irq.
HasLegacy == mgr.mode2idx[LegacyIrq] # UsizeMax

\* C1: in configuration stage set_working_mode(t) with current mode m
\* succeeds and get_working_mode() then returns t exactly when t = m, or
\* t = Disabled, or m = Disabled, or m = LegacyIrq, or t = LegacyIrq; for
\* every other pair it fails and the mode is unchanged.
C1_SwitchLegality ==
  (last.op = "set_working_mode" /\ ~last.pre.activated) =>
    LET m == last.pre.mode
        t == last.mode
    IN IF t = m \/ t = Disabled \/ m = Disabled \/ m = LegacyIrq \/ t = LegacyIrq
         THEN last.ret = Ok /\ get_working_mode(mgr) = t
         ELSE last.ret = EINVAL /\ get_working_mode(mgr) = m

\* A switch from LegacyIrq to PCI MSI-X has succeeded.
C1_Witness ==
  /\ last.op = "set_working_mode"
  /\ ~last.pre.activated
  /\ last.pre.mode = LegacyIrq
  /\ last.mode = PciMsixIrq
  /\ last.ret = Ok

\* C2: whenever activated, set_working_mode(t) fails for every target t,
\* the current mode and Disabled included, and leaves the mode unchanged.
C2_LockedAtRuntime ==
  (last.op = "set_working_mode" /\ last.pre.activated) =>
    /\ last.ret = EINVAL
    /\ mgr.mode = last.pre.mode
    /\ mgr.activated

\* At runtime stage set_working_mode was called with the current mode.
C2_Witness ==
  /\ last.op = "set_working_mode"
  /\ last.pre.activated
  /\ last.mode = last.pre.mode

\* C3: while activated, no call other than reset changes the mode.
C3_ModeFrozen ==
  [][(mgr.activated /\ last'.op # "reset") => mgr'.mode = mgr.mode]_vars

\* At runtime stage a call asked for another mode and the manager is still
\* at runtime stage.
C3_Witness ==
  /\ mgr.activated
  /\ last.pre.activated
  /\ last.op = "set_working_mode"
  /\ last.mode # last.pre.mode

\* C4: if activated then the mode is not Disabled and current_idx is a valid
\* index into the group table, the one mode2idx gives for the mode.
C4_ActivatedHasGroup ==
  mgr.activated =>
    /\ mgr.mode # Disabled
    /\ ValidIdx(mgr, mgr.current_idx)
    /\ mgr.current_idx = mgr.mode2idx[mgr.mode]

\* The manager is activated in an MSI mode entered from LegacyIrq.
C4_Witness ==
  /\ mgr.activated
  /\ mgr.mode = PciMsiIrq
  /\ HasLegacy

\* C5: whenever the mode is not Disabled, mode2idx[mode] names an allocated
\* group, and no call panics.
C5_NoUnsupportedMode ==
  /\ last.ret # Panic
  /\ mgr.mode # Disabled => ValidIdx(mgr, mgr.mode2idx[mgr.mode])

\* C6: enable() called in Disabled mode, not activated, on a device with a
\* legacy irq calls the legacy group's enable, and when that succeeds the
\* mode is LegacyIrq, the manager is enabled and get_group() returns the
\* legacy group.
C6_LegacyByDefault ==
  (last.op = "enable" /\ last.pre.mode = Disabled /\ ~last.pre.activated /\ HasLegacy) =>
    /\ Len(last.calls) = 1
    /\ last.calls[1].op = "enable"
    /\ last.calls[1].slot = mgr.mode2idx[LegacyIrq]
    /\ last.calls[1].ok =>
         /\ last.ret = Ok
         /\ get_working_mode(mgr) = LegacyIrq
         /\ is_enabled(mgr)
         /\ get_group(mgr).group = GroupAt(mgr, mgr.mode2idx[LegacyIrq])
         /\ get_group(mgr).group.ty = "LegacyIrq"

\* enable() succeeded from Disabled mode on a device with a legacy irq and
\* MSI ranges.
C6_Witness ==
  /\ last.op = "enable"
  /\ last.pre.mode = Disabled
  /\ ~last.pre.activated
  /\ HasLegacy
  /\ Len(mgr.intr_groups) = 4
  /\ last.ret = Ok

\* C7: enable() called in Disabled mode on a device without a legacy irq
\* fails with EINVAL, calls no group, and leaves the manager not activated
\* and Disabled.
C7_NoDefaultWithoutLegacy ==
  (last.op = "enable" /\ last.pre.mode = Disabled /\ ~HasLegacy) =>
    /\ last.ret = EINVAL
    /\ last.calls = <<>>
    /\ ~mgr.activated
    /\ mgr.mode = Disabled

\* enable() was called in Disabled mode without a legacy irq, after an MSI
\* mode had been selected and left.
C7_Witness ==
  /\ last.op = "enable"
  /\ last.pre.mode = Disabled
  /\ ~HasLegacy
  /\ ValidIdx(mgr, mgr.current_idx)

\* C8: after reset() returns Ok, is_enabled() is false, get_group() returns
\* None and the mode is Disabled.
C8_ResetDisables ==
  (last.op = "reset" /\ last.ret = Ok) =>
    /\ ~is_enabled(mgr)
    /\ get_group(mgr).group = NoGroup
    /\ get_working_mode(mgr) = Disabled

\* reset() succeeded at runtime stage in PCI MSI mode.
C8_Witness ==
  /\ last.op = "reset"
  /\ last.ret = Ok
  /\ last.pre.activated
  /\ last.pre.mode = PciMsiIrq

\* C9: when reset() is called while activated and the group's disable
\* fails, reset() returns the error and the manager is unchanged: still
\* activated, same mode and current_idx, get_group() still the group.
C9_FailedResetKeepsState ==
  (last.op = "reset" /\ last.pre.activated /\ last.ret = GroupErr) =>
    /\ mgr.activated
    /\ mgr.mode = last.pre.mode
    /\ mgr.current_idx = last.pre.current_idx
    /\ get_group(mgr).group = GroupAt(mgr, last.pre.current_idx)

\* C10: get_group() returns a handle exactly when activated and not
\* Disabled, and the handle is the group at mode2idx[mode], the group whose
\* enable the enable() call that began the runtime stage invoked.
C10_GetGroup ==
  LET g == get_group(mgr)
  IN /\ ~g.panic
     /\ g.group # NoGroup <=> (mgr.activated /\ mgr.mode # Disabled)
     /\ g.group # NoGroup =>
          /\ ValidIdx(mgr, mgr.mode2idx[mgr.mode])
          /\ g.group = GroupAt(mgr, mgr.mode2idx[mgr.mode])
          /\ enabled_slot = mgr.mode2idx[mgr.mode]
     /\ last.op = "get_group" => (last.ret = Ok /\ last.handle = g.group)

\* get_group() returned the generic MSI group.
C10_Witness ==
  /\ last.op = "get_group"
  /\ last.handle # NoGroup
  /\ mgr.mode = GenericMsiIrq

SetterOps == {"set_msi_high_address", "set_msi_low_address", "set_msi_data"}

SetterField(op) ==
  CASE op = "set_msi_high_address" -> "high_addr"
    [] op = "set_msi_low_address" -> "low_addr"
    [] op = "set_msi_data" -> "data"

\* C12: a setter called with an index not below the length of the MSI
\* configuration space fails and changes nothing; with a smaller index it
\* succeeds and changes exactly the named field of that entry to the value
\* given; and the entries a following enable() (in an MSI mode) or
\* update(index) passes to the group are the entries the configuration space
\* holds when it is called.
C12_Setters ==
  [][/\ last'.op \in SetterOps =>
          IF last'.index >= Len(mgr.msi_config)
            THEN last'.ret = EINVAL /\ mgr' = mgr
            ELSE /\ last'.ret = Ok
                 /\ mgr' = [mgr EXCEPT !.msi_config[last'.index + 1] =
                              [@ EXCEPT ![SetterField(last'.op)] = last'.data]]
     /\ (last'.op = "enable" /\ last'.calls # <<>> /\ mgr'.mode \in MsiModes) =>
          \A i \in 1..Len(last'.calls[1].payload) :
            /\ i <= Len(mgr.msi_config)
            /\ last'.calls[1].payload[i] = mgr.msi_config[i]
     /\ (last'.op = "update" /\ last'.calls # <<>>) =>
          last'.calls[1].payload = <<mgr.msi_config[last'.index + 1]>>
    ]_vars

\* update(1) passed to the group a low address that a setter had written.
C12_Witness ==
  /\ last.op = "update"
  /\ last.index = 1
  /\ last.ret = Ok
  /\ last.calls[1].payload[1].low_addr = 1
  /\ last.calls[1].payload[1].high_addr = 0

\* The slots of the MSI groups the device owns.
MsiSlots == {i \in 0..(Len(mgr.intr_groups) - 1) : GroupAt(mgr, i).ty = "MsiIrq"}

\* C13: the length of the MSI configuration space is at least the vector
\* count of every MSI group the device owns.
C13_ConfigSpaceCoversGroups ==
  \A i \in MsiSlots : Len(mgr.msi_config) >= GroupAt(mgr, i).len

\* A device whose last MSI group is smaller than the configuration space is
\* in that group's mode, which it entered through reset_configs, and a setter
\* has since written to the space.
C13_Witness ==
  /\ mgr.mode = PciMsixIrq
  /\ ValidIdx(mgr, mgr.current_idx)
  /\ GroupAt(mgr, mgr.current_idx).len < Len(mgr.msi_config)
  /\ last.op \in SetterOps
  /\ last.ret = Ok

\* C16: whenever enable() calls a group's enable, the entries passed are as
\* many as the group has vectors: in LegacyIrq mode the one legacy entry, in
\* an MSI mode the first len entries of the MSI configuration space, len the
\* vector count of the group at mode2idx[mode].
C16_EnablePayload ==
  (last.op = "enable" /\ last.calls # <<>>) =>
    LET call == last.calls[1]
        group == GroupAt(mgr, call.slot)
    IN /\ call.op = "enable"
       /\ Len(call.payload) = group.len
       /\ mgr.mode = LegacyIrq => call.payload = <<[tag |-> "LegacyIrq"]>>
       /\ mgr.mode \in MsiModes =>
            /\ call.slot = mgr.mode2idx[mgr.mode]
            /\ call.payload = SubSeq(mgr.msi_config, 1, group.len)
       /\ mgr.mode \in MsiModes \cup {LegacyIrq}

\* enable() enabled a group that has fewer vectors than the MSI
\* configuration space has entries.
C16_Witness ==
  /\ last.op = "enable"
  /\ last.ret = Ok
  /\ mgr.mode = GenericMsiIrq
  /\ Len(last.calls[1].payload) < Len(mgr.msi_config)

\* C17: a successful set_working_mode from a different mode to an MSI mode
\* leaves every entry of the MSI configuration space at its default (high
\* address, low address and data 0), the length unchanged, and sets
\* current_idx to mode2idx[target]; a switch to LegacyIrq or Disabled, and a
\* call naming the current mode, leave the MSI configuration space
\* unchanged.
C17_SwitchResetsConfigs ==
  [][(last'.op = "set_working_mode" /\ last'.ret = Ok) =>
       IF last'.mode \in MsiModes /\ last'.mode # mgr.mode
         THEN /\ Len(mgr'.msi_config) = Len(mgr.msi_config)
              /\ \A i \in 1..Len(mgr'.msi_config) :
                   mgr'.msi_config[i] =
                     [tag |-> "MsiIrq", high_addr |-> 0, low_addr |-> 0, data |-> 0]
              /\ mgr'.current_idx = mgr.mode2idx[last'.mode]
         ELSE mgr'.msi_config = mgr.msi_config
    ]_vars

\* A switch from LegacyIrq to PCI MSI succeeded on a device whose MSI
\* configuration space has MaxVec entries.
C17_Witness ==
  /\ last.op = "set_working_mode"
  /\ last.ret = Ok
  /\ last.pre.mode = LegacyIrq
  /\ last.mode = PciMsiIrq
  /\ Len(mgr.msi_config) = MaxVec
  /\ mgr.current_idx = mgr.mode2idx[PciMsiIrq]

\* The MSI configuration entries, and the configurations a group of n
\* vectors may hold.
MsiEntries ==
  [tag : {"MsiIrq"}, high_addr : FieldVals, low_addr : FieldVals, data : FieldVals]

LiveConfigs(n) == [1..n -> MsiEntries]

\* The configuration a group holds after a call, `live` being the one it
\* held before: a successful enable installs the entries passed, a
\* successful update replaces the entry of its index, any other call and
\* any failing call leave it.
GroupApply(live, call) ==
  IF ~call.ok
    THEN live
    ELSE IF call.op = "enable"
      THEN call.payload
      ELSE IF call.op = "update"
        THEN [live EXCEPT ![call.index + 1] = call.payload[1]]
        ELSE live

\* The configuration the group holds after the calls of one method, which
\* makes at most one.
LiveAfter(live, calls) ==
  IF calls = <<>> THEN live ELSE GroupApply(live, calls[1])

\* C18: while activated in an MSI mode, a setter call changes the
\* configuration the group holds for no vector, and after a successful
\* update(i) the group holds the MSI configuration space's entry i for vector
\* i and what it held before for every other vector.
C18_LiveRoute ==
  (last.pre.activated /\ last.pre.mode \in MsiModes) =>
    \A live \in LiveConfigs(GroupAt(mgr, last.pre.current_idx).len) :
      /\ last.op \in SetterOps => LiveAfter(live, last.calls) = live
      /\ (last.op = "update" /\ last.ret = Ok) =>
           LET after == LiveAfter(live, last.calls)
           IN /\ DOMAIN after = DOMAIN live
              /\ after[last.index + 1] = mgr.msi_config[last.index + 1]
              /\ \A j \in DOMAIN live :
                   j # last.index + 1 => after[j] = live[j]

\* update(1) succeeded in PCI MSI mode while the entries of vectors 0 and 1
\* differ.
C18_Witness ==
  /\ last.op = "update"
  /\ last.ret = Ok
  /\ last.pre.mode = PciMsiIrq
  /\ last.index = 1
  /\ mgr.msi_config[1] # mgr.msi_config[2]

\* C19 as stated: while activated, no call other than update changes an
\* entry of the MSI configuration space.
C19_OnlyUpdateWritesAtRuntime ==
  [][(mgr.activated /\ last'.op # "update") =>
       mgr'.msi_config = mgr.msi_config]_vars

\* C19 amended: while activated, no call other than the three setters
\* changes an entry of the MSI configuration space; update reads it.
C19_OnlySettersWriteAtRuntime ==
  [][(mgr.activated /\ last'.op \notin SetterOps) =>
       mgr'.msi_config = mgr.msi_config]_vars

\* At runtime stage a setter has written a value other than the default into
\* the MSI configuration space.
C19_Witness ==
  /\ mgr.activated
  /\ last.pre.activated
  /\ last.op = "set_msi_data"
  /\ last.ret = Ok
  /\ last.data = 1
  /\ mgr.msi_config[last.index + 1].data = 1

\* C20: when enable() is called in configuration stage with a mode selected
\* and the group's enable fails, enable() returns that error, activated
\* stays false and get_group() returns None.
C20_FailedEnable ==
  (last.op = "enable" /\ last.calls # <<>> /\ ~last.calls[1].ok) =>
    /\ ~last.pre.activated
    /\ last.ret = GroupErr
    /\ ~is_enabled(mgr)
    /\ get_group(mgr).group = NoGroup

\* The PCI MSI-X group's enable failed.
C20_Witness ==
  /\ last.op = "enable"
  /\ last.pre.mode = PciMsixIrq
  /\ last.calls # <<>>
  /\ ~last.calls[1].ok
  /\ last.ret = GroupErr

\* C14: the register is a 32-bit word that starts at 0: read returns the
\* word; write(v) replaces it by v; set_bits(v) makes it old OR v;
\* clear_bits(v) makes it old AND NOT v; read_and_clear returns the old word
\* and leaves 0.  From 0x13, clear_bits(0x11) leaves 0x2; from 0x2,
\* set_bits(0x100) leaves 0x102, which read_and_clear returns, leaving 0.
C14_StatusRegister ==
  LET old == reg_last.pre
      v == reg_last.arg
      op == reg_last.op
  IN /\ status \subseteq 0..31
     /\ op = "new" => read(status) = {}
     /\ op = "read" => (reg_last.ret = old /\ status = old)
     /\ op = "write" => status = v
     /\ op = "set_bits" => status = {b \in 0..31 : b \in old \/ b \in v}
     /\ op = "clear_bits" => status = {b \in 0..31 : b \in old /\ b \notin v}
     /\ op = "read_and_clear" => (reg_last.ret = old /\ status = {})
     /\ (op = "clear_bits" /\ old = {0, 1, 4} /\ v = {0, 4}) => read(status) = Bits(2)
     /\ (op = "set_bits" /\ old = {1} /\ v = {8}) => read(status) = Bits(258)
     /\ (op = "read_and_clear" /\ old = {1, 8}) =>
          (reg_last.ret = Bits(258) /\ read(status) = Bits(0))

\* read_and_clear() returned 0x102.
C14_Witness ==
  /\ reg_last.op = "read_and_clear"
  /\ reg_last.ret = {1, 8}
  /\ status = {}

\* C15: with threads calling set_bits and read_and_clear in any order, a bit
\* set by a set_bits call and not yet returned by a read_and_clear is in the
\* register, a bit in the register is such a bit, and each read_and_clear
\* returns exactly those bits: no set is lost and none is returned twice.
C15_DrainIndivisible ==
  /\ undrained = status
  /\ reg_last.op = "read_and_clear" =>
       (reg_last.ret = reg_last.pending /\ undrained = {})

\* Thread 2 drained the bits of two set_bits calls, 0x13 and 0x100.
C15_Witness ==
  /\ reg_last.op = "read_and_clear"
  /\ reg_last.thread = 2
  /\ reg_last.ret = {0, 1, 4, 8}

\* C21: enable() called in runtime stage returns Ok, makes no call on a
\* group and changes nothing of the manager; a runtime stage begins only by
\* an enable() that calls the enable of the group at current_idx once, and
\* no call made on the manager during the runtime stage calls a group's
\* enable: between a successful enable() and the next reset() the group's
\* enable is invoked exactly once.
C21_EnableOnce ==
  [][/\ (mgr.activated /\ last'.op = "enable") =>
          /\ mgr' = mgr
          /\ enabled_slot' = enabled_slot
          /\ last'.ret = Ok
          /\ last'.calls = <<>>
     /\ mgr.activated =>
          \A i \in 1..Len(last'.calls) : last'.calls[i].op # "enable"
     /\ (~mgr.activated /\ mgr'.activated) =>
          /\ last'.op = "enable"
          /\ last'.ret = Ok
          /\ Len(last'.calls) = 1
          /\ last'.calls[1].op = "enable"
          /\ last'.calls[1].ok
          /\ last'.calls[1].slot = mgr'.current_idx]_vars

\* enable() was called in the runtime stage of the PCI MSI group.
C21_Witness ==
  /\ last.op = "enable"
  /\ last.pre.activated
  /\ last.pre.mode = PciMsiIrq
  /\ last.ret = Ok
  /\ mgr.activated

\* C22: with the groups enabled on the host followed (a group's enable that
\* returns Ok enables it, a disable that returns Ok disables it, a failing
\* call changes nothing), in every state reached by enable, reset and
\* set_working_mode at most one group is enabled on the host, and a group
\* is enabled on the host only if activated and it is the group at
\* current_idx; also when a group's disable fails during reset.
C22_OneHostEnabled ==
  /\ Cardinality(host_enabled) <= 1
  /\ \A slot \in host_enabled :
       /\ mgr.activated
       /\ slot = mgr.current_idx

\* C23: when enable() is called with mode Disabled on a device with a legacy
\* group and the legacy group's enable fails, the mode selected by default
\* is kept: enable() returns the error, activated is false and
\* get_working_mode() is LegacyIrq, and a later enable() calls the legacy
\* group's enable again, entering the runtime stage when it returns Ok.
C23_NoRollBack ==
  (/\ last.op = "enable"
   /\ ~last.pre.activated
   /\ last.pre.mode = Disabled
   /\ HasLegacy
   /\ last.calls # <<>>
   /\ ~last.calls[1].ok) =>
    /\ last.ret = GroupErr
    /\ last.calls[1].slot = mgr.mode2idx[LegacyIrq]
    /\ ~is_enabled(mgr)
    /\ get_working_mode(mgr) = LegacyIrq
    /\ \A grp_ok \in BOOLEAN :
         LET r == enable(mgr, grp_ok)
         IN /\ r.calls = <<GroupCall(mgr.mode2idx[LegacyIrq], "enable", 0,
                                     LEGACY_CONFIGS, grp_ok)>>
            /\ r.ret = IF grp_ok THEN Ok ELSE GroupErr
            /\ r.self.activated = grp_ok
            /\ r.self.mode = LegacyIrq

\* The legacy group's enable failed in an enable() called in Disabled mode,
\* on a device that also has a PCI MSI group.
C23_Witness ==
  /\ last.op = "enable"
  /\ last.pre.mode = Disabled
  /\ last.ret = GroupErr
  /\ mgr.mode = LegacyIrq
  /\ ValidIdx(mgr, mgr.mode2idx[PciMsiIrq])

====
